---- MODULE Spec2Model ----
(***************************************************************************)
(* Model of src/output.c of nrsc5: the output stage that frames packets    *)
(* into an ADTS file (output_push -> dump_adts / dump_hdc ->               *)
(* write_adts_header) or decodes them and plays them through libao,        *)
(* either directly or through a pool of buffers shared between the thread  *)
(* that calls output_push / output_reset (the producer) and output_worker. *)
(*                                                                         *)
(* The producer's and the worker's statements are separate actions.        *)
(* pthread_mutex_lock is an action enabled when the mutex is free.         *)
(* output_reset takes no lock, so each of its loads and stores is an       *)
(* action of its own that interleaves with the worker's statements.        *)
(***************************************************************************)
EXTENDS Integers, Sequences, FiniteSets, TLC

\* ------------------------------------------------------------------ bounds
\* output_init_ao allocates 32 buffers (output.c:234); the model runs the
\* same code over a smaller pool so that exhaustion is reachable.
PoolSize == 2
\* Calls of output_push and output_reset the producer makes in one behaviour.
MaxCalls == 3
\* ao_play calls the worker may make beyond one per call, in one behaviour.
MaxStale == 1

\* --------------------------------------------------------------- constants
NULL == 0
Buffers == 1..PoolSize
\* sample_format.bits (output.c:25)
SAMPLE_BITS == 16
\* defines.h: the size in bytes of one decoded frame
AUDIO_FRAME_BYTES == 8192
\* the decoder's samples per frame: FRAME_SAMPLES * SAMPLE_BITS / 8 = AUDIO_FRAME_BYTES
FRAME_SAMPLES == 4096
\* uint8_t tmp[1024] in dump_adts (output.c:61)
TMP_BYTES == 1024
\* sizeof hdr (output.c:36)
HDR_BYTES == 7

Methods == {"OUTPUT_ADTS", "OUTPUT_HDC", "OUTPUT_WAV", "OUTPUT_LIVE"}
FileMethods == {"OUTPUT_ADTS", "OUTPUT_HDC"}

\* Packet lengths handed to output_push, and lengths hdc_to_aac produces.
PacketLens == {0, 100, 8184}
AacLens == {0, 93, TMP_BYTES}
\* NeAACDecFrameInfo.error values the decoder reports (0 = no error).
ErrorCodes == {0, 1}

VARIABLES
    method,       \* st->method, fixed by output_init_*
    useThreads,   \* whether the build defines USE_THREADS
    handle,       \* st->handle: "NULL" or "open"
    head, tail, free, \* st->head, st->tail, st->free
    next,         \* ob->next of every buffer
    data,         \* ob->data of every buffer: the frame copied in last (0: none)
    mutex,        \* owner of st->mutex: "none", "producer", "worker"
    waiters,      \* threads blocked in pthread_cond_wait on st->cond
    ppc,          \* the producer's position
    pob,          \* the producer's local ob (output_push and output_reset)
    wpc,          \* the worker's position
    wob,          \* the worker's local ob
    wstale,       \* whether wob, when the worker took it, had been published
                  \* before an output_reset that had returned, and not since
    file,         \* what was done to st->outfp, in order
    sink,         \* the ao_play calls, in order
    published,    \* the buffers appended to the pending list with the frames in
                  \* them, in order, and a ResetMark where an output_reset returned
    nCalls,       \* calls of output_push and output_reset so far
    call          \* the producer's current or last call: its packet length, the
                  \* decoder's NeAACDecFrameInfo, and what the call has done so
                  \* far (log_error calls, decoder closes and opens, ...)

vars == <<method, useThreads, handle, head, tail, free,
          next, data, mutex, waiters, ppc, pob, wpc, wob, wstale,
          file, sink, published, nCalls, call>>

\* ------------------------------------------------------- frame header codec
RECURSIVE Pow2(_)
Pow2(n) == IF n = 0 THEN 1 ELSE 2 * Pow2(n - 1)

\* bitwriter.h: bw_addbits appends the low `bits` bits of value, most
\* significant first, to the bits written so far.
bw_addbits(bw, value, bits) ==
    bw \o [i \in 1..bits |-> (value \div Pow2(bits - i)) % 2]

\* Mutant of adts_fields: the frame length leaves the header's 7 bytes out.
adts_fields_payload_only(len) ==
    << <<4095, 12>>, <<0, 1>>, <<0, 2>>, <<1, 1>>, <<1, 2>>, <<7, 4>>, <<0, 1>>,
       <<2, 3>>, <<0, 1>>, <<0, 1>>, <<0, 1>>, <<0, 1>>,
       <<len, 13>>, <<2047, 11>>, <<0, 2>> >>

\* The bw_addbits calls of write_adts_header, in order: <<value, bits>>.
adts_fields(len) ==
    << <<4095, 12>>,  \* sync word
       <<0, 1>>,      \* MPEG-4
       <<0, 2>>,      \* Layer
       <<1, 1>>,      \* no CRC
       <<1, 2>>,      \* AAC-LC
       <<7, 4>>,      \* 22050 HZ
       <<0, 1>>,      \* private bit
       <<2, 3>>,      \* 2-channel configuration
       <<0, 1>>, <<0, 1>>, <<0, 1>>, <<0, 1>>,
       <<len + 7, 13>>, \* frame length
       <<2047, 11>>,  \* buffer fullness (VBR)
       <<0, 2>> >>    \* 1 AAC frame per ADTS frame

RECURSIVE bw_addall(_, _, _)
bw_addall(bw, fields, k) ==
    IF k > Len(fields) THEN bw
    ELSE bw_addall(bw_addbits(bw, fields[k][1], fields[k][2]), fields, k + 1)

\* The byte the bit writer stores for bits 8k-7 .. 8k; a byte of hdr it has
\* not filled is left as it was on the stack (UNINIT).
UNINIT == -1
bw_byte(bw, k) ==
    LET b(i) == bw[8 * (k - 1) + i]
    IN  IF 8 * k > Len(bw) THEN UNINIT
        ELSE 128 * b(1) + 64 * b(2) + 32 * b(3) + 16 * b(4)
               + 8 * b(5) + 4 * b(6) + 2 * b(7) + b(8)

\* write_adts_header: the bytes of hdr[7] that fwrite(hdr, 7, 1, fp) writes.
write_adts_header(len) ==
    LET bw == bw_addall(<< >>, adts_fields(len), 1)
    IN  [k \in 1..HDR_BYTES |-> bw_byte(bw, k)]

\* What one fwrite / fflush does to the file.
FwriteHdr(len) == [op |-> "fwrite", what |-> "hdr", n |-> HDR_BYTES,
                   bytes |-> write_adts_header(len)]
FwritePayload(src, n) == [op |-> "fwrite", what |-> src, n |-> n, bytes |-> << >>]
Fflush == [op |-> "fflush", what |-> "", n |-> 0, bytes |-> << >>]

\* dump_hdc: header for len, the packet, flush.
dump_hdc(fp, len) ==
    fp \o << FwriteHdr(len), FwritePayload("pkt", len), Fflush >>

\* Mutant of dump_adts: the header is written for the input length.
dump_adts_input_len(fp, len, aaclen) ==
    fp \o << FwriteHdr(len), FwritePayload("tmp", aaclen), Fflush >>

\* dump_adts: hdc_to_aac fills tmp, bw_flush gives its length aaclen, then
\* header for aaclen, tmp, flush.
dump_adts(fp, len, aaclen) ==
    fp \o << FwriteHdr(aaclen), FwritePayload("tmp", aaclen), Fflush >>

\* ------------------------------------------------------------------- init
NoCall == [kind |-> "none", error |-> 0, samples |-> 0, len |-> 0, aaclen |-> 0,
           prevError |-> 0, diags |-> 0, closes |-> 0, inits |-> 0, acquired |-> 0, published |-> 0, sinkBytes |-> 0,
           fileOps |-> 0]

\* The state after output_init_adts / _hdc / _wav / _live. output_init_ao
\* pushes the buffers onto st->free one after the other, starts the worker
\* and calls output_reset, which opens the decoder and finds head == NULL.
Init ==
    /\ method \in Methods
    /\ useThreads \in BOOLEAN
    /\ handle = IF method \in FileMethods THEN "NULL" ELSE "open"
    /\ head = NULL /\ tail = NULL
    /\ free = IF method \notin FileMethods /\ useThreads THEN PoolSize ELSE NULL
    /\ next = [b \in Buffers |->
                 IF method \notin FileMethods /\ useThreads THEN b - 1 ELSE NULL]
    /\ data = [b \in Buffers |-> 0]
    /\ mutex = "none"
    /\ waiters = {}
    /\ ppc = "idle" /\ pob = NULL
    /\ wpc = IF method \notin FileMethods /\ useThreads THEN "work_lock1" ELSE "none"
    /\ wob = NULL /\ wstale = FALSE
    /\ file = << >> /\ sink = << >>
    /\ published = << >>
    /\ nCalls = 0
    /\ call = NoCall

ResetMark == [buf |-> NULL, frame |-> 0]

\* Whether buffer b was appended to the pending list before an output_reset
\* that has returned and has not been appended again since, by the history h.
Stale(b, h) ==
    \E m \in 1..Len(h) :
        /\ h[m] = ResetMark
        /\ \E i \in 1..(m - 1) : h[i].buf = b
        /\ \A j \in (m + 1)..Len(h) : h[j].buf # b

\* pthread_cond_signal(&st->cond): wakes one waiter, if there is one.
cond_signal(w) == IF w = {} THEN {{}} ELSE {w \ {t} : t \in w}

PlayCap == MaxCalls + MaxStale

\* The record of a call that starts now; it remembers the error code of the
\* output_push before it.
NewCall(kind) ==
    [NoCall EXCEPT !.kind = kind,
                   !.prevError = IF call.kind = "push" THEN call.error ELSE 0]

\* ---------------------------------------------------------- output_push
\* output.c:87-91: OUTPUT_ADTS, the whole of dump_adts.
output_push_adts ==
    /\ ppc = "idle" /\ nCalls < MaxCalls
    /\ method = "OUTPUT_ADTS"
    /\ \E len \in PacketLens, aaclen \in AacLens :
          /\ file' = dump_adts(file, len, aaclen)
          /\ call' = [NewCall("push") EXCEPT !.len = len, !.aaclen = aaclen,
                                             !.fileOps = 3]
    /\ nCalls' = nCalls + 1
    /\ UNCHANGED <<method, useThreads, handle, head, tail,
                   free, next, data, mutex, waiters, ppc, pob, wpc, wob, wstale,
                   sink, published>>

\* output.c:92-96: OUTPUT_HDC, the whole of dump_hdc.
output_push_hdc ==
    /\ ppc = "idle" /\ nCalls < MaxCalls
    /\ method = "OUTPUT_HDC"
    /\ \E len \in PacketLens :
          /\ file' = dump_hdc(file, len)
          /\ call' = [NewCall("push") EXCEPT !.len = len, !.fileOps = 3]
    /\ nCalls' = nCalls + 1
    /\ UNCHANGED <<method, useThreads, handle, head, tail,
                   free, next, data, mutex, waiters, ppc, pob, wpc, wob, wstale,
                   sink, published>>

\* Mutant of push_has_audio: the error code is not looked at.
push_has_audio_any_error(error, samples) == samples > 0

\* Whether output_push goes on to play or enqueue the decoded frame
\* (output.c:104).
push_has_audio(error, samples) == error = 0 /\ samples > 0

\* output.c:98-109 and, without USE_THREADS, 131: decode the packet, log a
\* decode error, and play the frame at once when there is no worker.
output_push_decode ==
    /\ ppc = "idle" /\ nCalls < MaxCalls
    /\ method \notin FileMethods
    /\ \E error \in ErrorCodes, samples \in {0, FRAME_SAMPLES} :
          LET audio == push_has_audio(error, samples)
              bytes == (samples * SAMPLE_BITS) \div 8
              logged == IF error > 0 THEN 1 ELSE 0
          IN  /\ audio => bytes = AUDIO_FRAME_BYTES  \* the assert
              /\ IF audio /\ ~useThreads
                   THEN sink' = Append(sink, [by |-> "producer", buf |-> NULL,
                                              frame |-> nCalls + 1,
                                              bytes |-> AUDIO_FRAME_BYTES])
                   ELSE sink' = sink
              /\ ppc' = IF audio /\ useThreads THEN "push_lock1" ELSE "idle"
              /\ call' = [NewCall("push") EXCEPT
                             !.error = error, !.samples = samples,
                             !.diags = logged,
                             !.sinkBytes = IF audio /\ ~useThreads
                                             THEN AUDIO_FRAME_BYTES ELSE 0]
    /\ nCalls' = nCalls + 1
    /\ UNCHANGED <<method, useThreads, handle, head, tail,
                   free, next, data, mutex, waiters, pob, wpc, wob, wstale, file,
                   published>>

\* output.c:112
output_push_lock1 ==
    /\ ppc = "push_lock1" /\ mutex = "none"
    /\ mutex' = "producer"
    /\ ppc' = "push_test_free"
    /\ UNCHANGED <<method, useThreads, handle, head, tail,
                   free, next, data, waiters, pob, wpc, wob, wstale, file,
                   sink, published, nCalls, call>>

\* output.c:113-114: the loop test; pthread_cond_wait gives up the mutex.
output_push_test_free ==
    /\ ppc = "push_test_free"
    /\ IF free = NULL
         THEN /\ mutex' = "none"
              /\ waiters' = waiters \cup {"producer"}
              /\ ppc' = "push_cond_wait"
         ELSE /\ ppc' = "push_acquire"
              /\ UNCHANGED <<mutex, waiters>>
    /\ UNCHANGED <<method, useThreads, handle, head, tail,
                   free, next, data, pob, wpc, wob, wstale, file, sink, published, nCalls, call>>

\* output.c:114: woken, pthread_cond_wait takes the mutex again.
output_push_cond_wake ==
    /\ ppc = "push_cond_wait" /\ "producer" \notin waiters /\ mutex = "none"
    /\ mutex' = "producer"
    /\ ppc' = "push_test_free"
    /\ UNCHANGED <<method, useThreads, handle, head, tail,
                   free, next, data, waiters, pob, wpc, wob, wstale, file,
                   sink, published, nCalls, call>>

\* output.c:115-116
output_push_acquire ==
    /\ ppc = "push_acquire"
    /\ pob' = free
    /\ free' = next[free]
    /\ call' = [call EXCEPT !.acquired = @ + 1]
    /\ ppc' = "push_unlock1"
    /\ UNCHANGED <<method, useThreads, handle, head, tail,
                   next, data, mutex, waiters, wpc, wob, wstale, file, sink,
                   published, nCalls>>

\* output.c:117
output_push_unlock1 ==
    /\ ppc = "push_unlock1"
    /\ mutex' = "none"
    /\ ppc' = "push_memcpy"
    /\ UNCHANGED <<method, useThreads, handle, head, tail,
                   free, next, data, waiters, pob, wpc, wob, wstale, file,
                   sink, published, nCalls, call>>

\* output.c:119: memcpy starts writing ob->data ...
output_push_memcpy_begin ==
    /\ ppc = "push_memcpy"
    /\ ppc' = "push_copying"
    /\ UNCHANGED <<method, useThreads, handle, head, tail,
                   free, next, data, mutex, waiters, pob, wpc, wob, wstale,
                   file, sink, published, nCalls, call>>

\* ... and has written all of it.
output_push_memcpy_end ==
    /\ ppc = "push_copying"
    /\ data' = [data EXCEPT ![pob] = nCalls]
    /\ ppc' = "push_lock2"
    /\ UNCHANGED <<method, useThreads, handle, head, tail,
                   free, next, mutex, waiters, pob, wpc, wob, wstale, file,
                   sink, published, nCalls, call>>

\* output.c:121
output_push_lock2 ==
    /\ ppc = "push_lock2" /\ mutex = "none"
    /\ mutex' = "producer"
    /\ ppc' = "push_publish"
    /\ UNCHANGED <<method, useThreads, handle, head, tail,
                   free, next, data, waiters, pob, wpc, wob, wstale, file,
                   sink, published, nCalls, call>>

\* output.c:122-127: append ob to the pending list.
publish_next(nx, ob, tl) ==
    IF tl # NULL THEN [nx EXCEPT ![ob] = NULL, ![tl] = ob]
                 ELSE [nx EXCEPT ![ob] = NULL]
publish_head(hd, ob, tl) == IF tl # NULL THEN hd ELSE ob

\* Mutant of output_push_publish: ob is put in front of the pending list.
output_push_publish_front ==
    /\ ppc = "push_publish"
    /\ next' = [next EXCEPT ![pob] = head]
    /\ head' = pob
    /\ tail' = IF tail # NULL THEN tail ELSE pob
    /\ published' = Append(published, [buf |-> pob, frame |-> data[pob]])
    /\ call' = [call EXCEPT !.published = @ + 1]
    /\ ppc' = "push_unlock2"
    /\ UNCHANGED <<method, useThreads, handle, free, data,
                   mutex, waiters, pob, wpc, wob, wstale, file, sink,
                   nCalls>>

output_push_publish ==
    /\ ppc = "push_publish"
    /\ next' = publish_next(next, pob, tail)
    /\ head' = publish_head(head, pob, tail)
    /\ tail' = pob
    /\ published' = Append(published, [buf |-> pob, frame |-> data[pob]])
    /\ call' = [call EXCEPT !.published = @ + 1]
    /\ ppc' = "push_unlock2"
    /\ UNCHANGED <<method, useThreads, handle, free, data,
                   mutex, waiters, pob, wpc, wob, wstale, file, sink, nCalls>>

\* output.c:128
output_push_unlock2 ==
    /\ ppc = "push_unlock2"
    /\ mutex' = "none"
    /\ ppc' = "push_signal"
    /\ UNCHANGED <<method, useThreads, handle, head, tail,
                   free, next, data, waiters, pob, wpc, wob, wstale, file,
                   sink, published, nCalls, call>>

\* Mutant of output_push_signal: the condition variable is not signalled.
output_push_no_signal ==
    /\ ppc = "push_signal"
    /\ ppc' = "idle"
    /\ UNCHANGED <<method, useThreads, handle, head, tail,
                   free, next, data, mutex, waiters, pob, wpc, wob, wstale, file,
                   sink, published, nCalls, call>>

\* output.c:129
output_push_signal ==
    /\ ppc = "push_signal"
    /\ waiters' \in cond_signal(waiters)
    /\ ppc' = "idle"
    /\ UNCHANGED <<method, useThreads, handle, head, tail,
                   free, next, data, mutex, pob, wpc, wob, wstale, file, sink,
                   published, nCalls, call>>

\* --------------------------------------------------------- output_worker
\* output.c:145
output_worker_lock1 ==
    /\ wpc = "work_lock1" /\ mutex = "none"
    /\ mutex' = "worker"
    /\ wpc' = "work_test_head"
    /\ UNCHANGED <<method, useThreads, handle, head, tail,
                   free, next, data, waiters, ppc, pob, wob, wstale, file,
                   sink, published, nCalls, call>>

\* output.c:146-147: the loop test; pthread_cond_wait gives up the mutex.
output_worker_test_head ==
    /\ wpc = "work_test_head"
    /\ IF head = NULL
         THEN /\ mutex' = "none"
              /\ waiters' = waiters \cup {"worker"}
              /\ wpc' = "work_cond_wait"
         ELSE /\ wpc' = "work_take"
              /\ UNCHANGED <<mutex, waiters>>
    /\ UNCHANGED <<method, useThreads, handle, head, tail,
                   free, next, data, ppc, pob, wob, wstale, file, sink, published, nCalls, call>>

\* output.c:147: woken, pthread_cond_wait takes the mutex again.
output_worker_cond_wake ==
    /\ wpc = "work_cond_wait" /\ "worker" \notin waiters /\ mutex = "none"
    /\ mutex' = "worker"
    /\ wpc' = "work_test_head"
    /\ UNCHANGED <<method, useThreads, handle, head, tail,
                   free, next, data, waiters, ppc, pob, wob, wstale, file,
                   sink, published, nCalls, call>>

\* output.c:148: ob = st->head; the buffer stays linked in the pending list.
output_worker_take ==
    /\ wpc = "work_take"
    /\ wob' = head
    /\ wstale' = Stale(head, published)
    /\ wpc' = "work_unlock1"
    /\ UNCHANGED <<method, useThreads, handle, head, tail,
                   free, next, data, mutex, waiters, ppc, pob, file,
                   sink, published, nCalls, call>>

\* Mutant of output_worker_unlock1: the unlock of line 149 is missing and the
\* worker goes into ao_play with the mutex.
output_worker_no_unlock1 ==
    /\ wpc = "work_unlock1"
    /\ wpc' = "work_play"
    /\ UNCHANGED <<method, useThreads, handle, head, tail,
                   free, next, data, mutex, waiters, ppc, pob, wob, wstale,
                   file, sink, published, nCalls, call>>

\* output.c:149
output_worker_unlock1 ==
    /\ wpc = "work_unlock1"
    /\ mutex' = "none"
    /\ wpc' = "work_play"
    /\ UNCHANGED <<method, useThreads, handle, head, tail,
                   free, next, data, waiters, ppc, pob, wob, wstale, file,
                   sink, published, nCalls, call>>

\* output.c:151: ao_play starts reading ob->data ...
output_worker_play_begin ==
    /\ wpc = "work_play" /\ wob # NULL
    /\ Len(sink) < PlayCap
    /\ sink' = Append(sink, [by |-> "worker", buf |-> wob, frame |-> data[wob],
                             bytes |-> AUDIO_FRAME_BYTES])
    /\ wpc' = "work_playing"
    /\ UNCHANGED <<method, useThreads, handle, head, tail,
                   free, next, data, mutex, waiters, ppc, pob, wob, wstale,
                   file, published, nCalls, call>>

\* output.c:151 with ob == NULL (st->head was cleared between lines 146 and
\* 148): ao_play reads through a null pointer and the process dies.
output_worker_play_null ==
    /\ wpc = "work_play" /\ wob = NULL
    /\ wpc' = "crashed" /\ ppc' = "crashed"
    /\ UNCHANGED <<method, useThreads, handle, head, tail,
                   free, next, data, mutex, waiters, pob, wob, wstale, file,
                   sink, published, nCalls, call>>

\* ... and returns.
output_worker_play_end ==
    /\ wpc = "work_playing"
    /\ wpc' = "work_lock2"
    /\ UNCHANGED <<method, useThreads, handle, head, tail,
                   free, next, data, mutex, waiters, ppc, pob, wob, wstale,
                   file, sink, published, nCalls, call>>

\* output.c:153
output_worker_lock2 ==
    /\ wpc = "work_lock2" /\ mutex = "none"
    /\ mutex' = "worker"
    /\ wpc' = "work_release_head"
    /\ UNCHANGED <<method, useThreads, handle, head, tail,
                   free, next, data, waiters, ppc, pob, wob, wstale, file,
                   sink, published, nCalls, call>>

\* output.c:154
output_worker_release_head ==
    /\ wpc = "work_release_head"
    /\ head' = next[wob]
    /\ wpc' = "work_release_tail"
    /\ UNCHANGED <<method, useThreads, handle, tail, free,
                   next, data, mutex, waiters, ppc, pob, wob, wstale, file,
                   sink, published, nCalls, call>>

\* output.c:155-156
output_worker_release_tail ==
    /\ wpc = "work_release_tail"
    /\ tail' = IF head = NULL THEN NULL ELSE tail
    /\ wpc' = "work_release_link"
    /\ UNCHANGED <<method, useThreads, handle, head, free,
                   next, data, mutex, waiters, ppc, pob, wob, wstale, file,
                   sink, published, nCalls, call>>

\* output.c:157
output_worker_release_link ==
    /\ wpc = "work_release_link"
    /\ next' = [next EXCEPT ![wob] = free]
    /\ wpc' = "work_release_free"
    /\ UNCHANGED <<method, useThreads, handle, head, tail,
                   free, data, mutex, waiters, ppc, pob, wob, wstale, file,
                   sink, published, nCalls, call>>

\* output.c:158
output_worker_release_free ==
    /\ wpc = "work_release_free"
    /\ free' = wob
    /\ wpc' = "work_unlock2"
    /\ UNCHANGED <<method, useThreads, handle, head, tail,
                   next, data, mutex, waiters, ppc, pob, wob, wstale, file,
                   sink, published, nCalls, call>>

\* output.c:159
output_worker_unlock2 ==
    /\ wpc = "work_unlock2"
    /\ mutex' = "none"
    /\ wpc' = "work_signal"
    /\ UNCHANGED <<method, useThreads, handle, head, tail,
                   free, next, data, waiters, ppc, pob, wob, wstale, file,
                   sink, published, nCalls, call>>

\* Mutant of output_worker_signal: the pthread_cond_signal of line 160 is
\* missing.
output_worker_no_signal ==
    /\ wpc = "work_signal"
    /\ wpc' = "work_lock1"
    /\ UNCHANGED <<method, useThreads, handle, head, tail,
                   free, next, data, mutex, waiters, ppc, pob, wob, wstale,
                   file, sink, published, nCalls, call>>

\* output.c:160
output_worker_signal ==
    /\ wpc = "work_signal"
    /\ waiters' \in cond_signal(waiters)
    /\ wpc' = "work_lock1"
    /\ UNCHANGED <<method, useThreads, handle, head, tail,
                   free, next, data, mutex, ppc, pob, wob, wstale, file, sink,
                   published, nCalls, call>>

\* pthread_cond_wait may return without a signal (POSIX spurious wakeup).
cond_spurious_wakeup ==
    /\ \E t \in waiters : waiters' = waiters \ {t}
    /\ UNCHANGED <<method, useThreads, handle, head, tail,
                   free, next, data, mutex, ppc, pob, wpc, wob, wstale, file,
                   sink, published, nCalls, call>>

\* ---------------------------------------------------------- output_reset
\* Mutant of output_reset_file: the early return of lines 170-171 is missing
\* and the decoder is closed and opened in a file mode too.
output_reset_file_no_return ==
    /\ ppc = "idle" /\ nCalls < MaxCalls
    /\ method \in FileMethods
    /\ handle' = "open"
    /\ nCalls' = nCalls + 1
    /\ call' = [NewCall("reset") EXCEPT !.inits = 1]
    /\ UNCHANGED <<method, useThreads, head, tail,
                   free, next, data, mutex, waiters, ppc, pob, wpc,
                   wob, wstale, file, sink, published>>

\* output.c:170-171: nothing is done in the file modes.
output_reset_file ==
    /\ ppc = "idle" /\ nCalls < MaxCalls
    /\ method \in FileMethods
    /\ nCalls' = nCalls + 1
    /\ call' = NewCall("reset")
    /\ UNCHANGED <<method, useThreads, handle, head, tail,
                   free, next, data, mutex, waiters, ppc, pob, wpc,
                   wob, wstale, file, sink, published>>

\* output.c:173-176: close the decoder if there is one, open a new one.
output_reset_decoder ==
    /\ ppc = "idle" /\ nCalls < MaxCalls
    /\ method \notin FileMethods
    /\ handle' = "open"
    /\ ppc' = IF useThreads THEN "reset_walk_init" ELSE "idle"
    /\ nCalls' = nCalls + 1
    /\ call' = [NewCall("reset") EXCEPT
                   !.closes = IF handle # "NULL" THEN 1 ELSE 0, !.inits = 1]
    /\ UNCHANGED <<method, useThreads, head, tail, free, next, data, mutex,
                   waiters, pob, wpc, wob, wstale, file, sink, published>>

\* output.c:180: ob = st->head
output_reset_walk_init ==
    /\ ppc = "reset_walk_init"
    /\ pob' = head
    /\ ppc' = "reset_walk_test"
    /\ UNCHANGED <<method, useThreads, handle, head, tail,
                   free, next, data, mutex, waiters, wpc, wob, wstale, file,
                   sink, published, nCalls, call>>

\* output.c:180: ob && ob->next != NULL
output_reset_walk_test ==
    /\ ppc = "reset_walk_test"
    /\ ppc' = IF pob # NULL /\ next[pob] # NULL THEN "reset_walk_step"
                                                ELSE "reset_test_ob"
    /\ UNCHANGED <<method, useThreads, handle, head, tail,
                   free, next, data, mutex, waiters, pob, wpc, wob, wstale,
                   file, sink, published, nCalls, call>>

\* output.c:180: ob = ob->next
output_reset_walk_step ==
    /\ ppc = "reset_walk_step"
    /\ pob' = next[pob]
    /\ ppc' = "reset_walk_test"
    /\ UNCHANGED <<method, useThreads, handle, head, tail,
                   free, next, data, mutex, waiters, wpc, wob, wstale, file,
                   sink, published, nCalls, call>>

\* output.c:183
output_reset_test_ob ==
    /\ ppc = "reset_test_ob"
    /\ ppc' = IF pob # NULL THEN "reset_link" ELSE "reset_clear_head"
    /\ UNCHANGED <<method, useThreads, handle, head, tail,
                   free, next, data, mutex, waiters, pob, wpc, wob, wstale,
                   file, sink, published, nCalls, call>>

\* output.c:185
output_reset_link ==
    /\ ppc = "reset_link"
    /\ next' = [next EXCEPT ![pob] = free]
    /\ ppc' = "reset_free"
    /\ UNCHANGED <<method, useThreads, handle, head, tail,
                   free, data, mutex, waiters, pob, wpc, wob, wstale, file,
                   sink, published, nCalls, call>>

\* output.c:186
output_reset_free ==
    /\ ppc = "reset_free"
    /\ free' = head
    /\ ppc' = "reset_clear_head"
    /\ UNCHANGED <<method, useThreads, handle, head, tail,
                   next, data, mutex, waiters, pob, wpc, wob, wstale, file,
                   sink, published, nCalls, call>>

\* output.c:189
output_reset_clear_head ==
    /\ ppc = "reset_clear_head"
    /\ head' = NULL
    /\ ppc' = "reset_clear_tail"
    /\ UNCHANGED <<method, useThreads, handle, tail, free,
                   next, data, mutex, waiters, pob, wpc, wob, wstale, file,
                   sink, published, nCalls, call>>

\* output.c:190
output_reset_clear_tail ==
    /\ ppc = "reset_clear_tail"
    /\ tail' = NULL
    /\ published' = Append(published, ResetMark)
    /\ ppc' = "idle"
    /\ UNCHANGED <<method, useThreads, handle, head, free,
                   next, data, mutex, waiters, pob, wpc, wob, wstale, file,
                   sink, nCalls, call>>

\* ------------------------------------------------------------------- spec
output_push_steps ==
    \/ output_push_lock1 \/ output_push_test_free \/ output_push_cond_wake
    \/ output_push_acquire \/ output_push_unlock1
    \/ output_push_memcpy_begin \/ output_push_memcpy_end
    \/ output_push_lock2 \/ output_push_publish \/ output_push_unlock2
    \/ output_push_signal

output_push ==
    \/ output_push_adts \/ output_push_hdc \/ output_push_decode
    \/ output_push_steps

output_worker_steps ==
    \/ output_worker_lock1 \/ output_worker_test_head \/ output_worker_cond_wake
    \/ output_worker_take \/ output_worker_unlock1
    \/ output_worker_play_begin \/ output_worker_play_end
    \/ output_worker_lock2 \/ output_worker_release_head
    \/ output_worker_release_tail \/ output_worker_release_link
    \/ output_worker_release_free \/ output_worker_unlock2
    \/ output_worker_signal

output_worker == output_worker_steps \/ output_worker_play_null

output_reset ==
    \/ output_reset_file \/ output_reset_decoder
    \/ output_reset_walk_init \/ output_reset_walk_test \/ output_reset_walk_step
    \/ output_reset_test_ob \/ output_reset_link \/ output_reset_free
    \/ output_reset_clear_head \/ output_reset_clear_tail

Next == output_push \/ output_worker \/ output_reset \/ cond_spurious_wakeup

Spec == Init /\ [][Next]_vars

\* The program without calls of output_reset.
NextNoReset == output_push \/ output_worker_steps \/ cond_spurious_wakeup

SpecNoReset == Init /\ [][NextNoReset]_vars

\* The same, where the scheduler runs both threads: the worker and a started
\* output_push take the step they are at if it is possible again and again
\* (a thread blocked in pthread_mutex_lock gets the mutex in the end). New
\* calls and spurious wakeups need not happen.
FairSpecNoReset ==
    SpecNoReset /\ SF_vars(output_worker_steps) /\ SF_vars(output_push_steps)

\* write_adts_header on its own, for every payload length a 13-bit frame
\* length can hold.
HeaderLens == 0..(Pow2(13) - 1 - HDR_BYTES)

InitHeader == Init /\ method = "OUTPUT_HDC" /\ ~useThreads

\* output.c:34-57: one call write_adts_header(fp, len) on an empty file.
write_adts_header_call ==
    /\ ppc = "idle" /\ file = << >>
    /\ \E len \in HeaderLens :
          /\ file' = << FwriteHdr(len) >>
          /\ call' = [NewCall("header") EXCEPT !.len = len, !.fileOps = 1]
    /\ UNCHANGED <<method, useThreads, handle, head, tail, free, next, data,
                   mutex, waiters, ppc, pob, wpc, wob, wstale, sink, published,
                   nCalls>>

SpecHeader == InitHeader /\ [][write_adts_header_call]_vars

\* ---------------------------------------------------------------- claims
\* The buffers reached from b along the next links.
RECURSIVE Walk(_, _)
Walk(b, seen) ==
    IF b = NULL \/ b \in seen THEN seen ELSE Walk(next[b], seen \cup {b})

\* Whether the list that starts at b ends in NULL within PoolSize links.
RECURSIVE Terminates(_, _)
Terminates(b, k) ==
    IF b = NULL THEN TRUE
    ELSE IF k = 0 THEN FALSE ELSE Terminates(next[b], k - 1)

Queued == method \notin FileMethods /\ useThreads

\* The worker holds wob from line 148 until it has put it on the free list
\* (line 158); the producer holds pob from line 116 until it has appended it
\* (line 127).
HeldByWorker ==
    IF wpc \in {"work_unlock1", "work_play", "work_playing", "work_lock2",
                "work_release_head", "work_release_tail", "work_release_link",
                "work_release_free"} /\ wob # NULL
      THEN {wob} ELSE {}
HeldByProducer ==
    IF ppc \in {"push_unlock1", "push_memcpy", "push_copying", "push_lock2",
                "push_publish"}
      THEN {pob} ELSE {}

FreeSeq == Walk(free, {})
\* The pending sequence: what head reaches. The worker leaves the buffer it
\* plays linked at head; in favour of the code that buffer is counted as the
\* worker's and not as pending.
PendingSeq == Walk(head, {}) \ HeldByWorker

ResetPcs == {"reset_walk_init", "reset_walk_test", "reset_walk_step",
             "reset_test_ob", "reset_link", "reset_free", "reset_clear_head",
             "reset_clear_tail"}

\* No thread is inside a critical section or inside output_reset's relinking.
OutsideCriticalSections ==
    Queued /\ mutex = "none" /\ ppc \notin ResetPcs /\ ppc # "crashed"

\* C1: pool conservation. Whenever no thread is inside a critical section,
\* the sizes of the free sequence, the pending sequence and the sets held by
\* the producer and by the worker add up to the pool size, and together they
\* are all the buffers.
C1_PoolConservation ==
    OutsideCriticalSections =>
        /\ Cardinality(FreeSeq) + Cardinality(PendingSeq)
             + Cardinality(HeldByProducer) + Cardinality(HeldByWorker) = PoolSize
        /\ FreeSeq \cup PendingSeq \cup HeldByProducer \cup HeldByWorker = Buffers

\* C2: FIFO playback. Without output_reset, the i-th buffer the worker hands
\* to ao_play is the i-th buffer appended to the pending list, holding the
\* frame it was appended with.
C2_FifoPlayback ==
    \A i \in 1..Len(sink) :
        sink[i].by = "worker" =>
            /\ i <= Len(published)
            /\ sink[i].buf = published[i].buf
            /\ sink[i].frame = published[i].frame

\* Two buffers were pending together and both have been handed to ao_play.
C2_Witness ==
    /\ Queued /\ Len(sink) >= 2
    /\ sink[1].buf # sink[2].buf
    /\ sink[1].frame < sink[2].frame

\* C3: once an output_reset in queued mode has returned, no push has
\* followed, and the worker has finished the step it was in (it is back at
\* the top of its loop), the pending list is empty (head and tail null) and
\* the free list is a null-terminated list of all the buffers.
C3_ResetEmptiesPending ==
    ( /\ Queued /\ ppc = "idle" /\ call.kind = "reset"
      /\ wpc \in {"work_lock1", "work_cond_wait"} )
    => /\ head = NULL /\ tail = NULL
       /\ FreeSeq = Buffers
       /\ Terminates(free, PoolSize)

\* C4: single ownership. Whenever no thread is inside a critical section,
\* every buffer is in exactly one of the free sequence, the pending
\* sequence, the producer's hands and the worker's hands, and no buffer is
\* reached from both st->free and st->head.
C4_SingleOwner ==
    OutsideCriticalSections =>
        /\ \A b \in Buffers :
              Cardinality({o \in {"free", "pending", "producer", "worker"} :
                  \/ o = "free" /\ b \in FreeSeq
                  \/ o = "pending" /\ b \in PendingSeq
                  \/ o = "producer" /\ b \in HeldByProducer
                  \/ o = "worker" /\ b \in HeldByWorker}) = 1
        /\ FreeSeq \cap Walk(head, {}) = {}

\* C5: the producer's memcpy into a buffer and the worker's ao_play of the
\* same buffer are never under way at the same time.
C5_NoSimultaneousAccess ==
    ~(ppc = "push_copying" /\ wpc = "work_playing" /\ pob = wob)

\* C6: the worker never starts ao_play on a buffer that, when the worker
\* took it from the pending list, had been published before an output_reset
\* that had already returned and had not been published again since.
C6_ResetDiscards ==
    ~(wpc = "work_playing" /\ wstale)

\* C7: queued playback drains. Without output_reset and with a fair worker,
\* the k-th publish leads to a k-th ao_play, and after k publishes either
\* another publish follows or the pending list gets empty with every buffer
\* back in the free list and k frames played.
C7_DrainsCompletely ==
    \A k \in 1..MaxCalls :
        /\ (Len(published) >= k) ~> (Len(sink) >= k)
        /\ (Len(published) = k)
              ~> \/ Len(published) > k
                 \/ /\ head = NULL /\ tail = NULL
                    /\ FreeSeq = Buffers /\ Terminates(free, PoolSize)
                    /\ Len(sink) = k

\* Every call was a push of a good frame and all of them have been drained.
C7_Witness ==
    /\ Queued /\ Len(published) = MaxCalls /\ Len(sink) = MaxCalls
    /\ head = NULL /\ tail = NULL /\ FreeSeq = Buffers
    /\ wpc = "work_cond_wait"

\* C8: decode-error path. In a decode mode a push whose decoder call reports
\* an error logs exactly one diagnostic, plays nothing, acquires and
\* publishes no buffer and leaves the lists, the buffers, the sink, the mutex
\* and the waiters as they were; and a push of a good frame that follows a
\* failed push acquires and publishes one buffer (queued) or plays one frame
\* (unthreaded) and logs nothing.
C8_DecodeErrorPath ==
    /\ [][ ( /\ ppc = "idle" /\ method \notin FileMethods
             /\ nCalls' = nCalls + 1 /\ call'.kind = "push" /\ call'.error > 0 )
           => /\ call'.diags = 1
              /\ ppc' = "idle"
              /\ UNCHANGED <<head, tail, free, next, data, sink, published,
                             mutex, waiters, handle>> ]_vars
    /\ []( ( /\ ppc = "idle" /\ method \notin FileMethods /\ call.kind = "push"
             /\ call.error > 0 )
           => /\ call.diags = 1
              /\ call.acquired = 0 /\ call.published = 0 /\ call.sinkBytes = 0 )
    /\ []( ( /\ ppc = "idle" /\ method \notin FileMethods /\ call.kind = "push"
             /\ call.error = 0 /\ call.samples > 0 /\ call.prevError > 0 )
           => /\ call.diags = 0
              /\ useThreads => call.acquired = 1 /\ call.published = 1
              /\ ~useThreads => call.sinkBytes = AUDIO_FRAME_BYTES )

\* A push of a good frame has been enqueued right after a push that failed.
C8_Witness ==
    /\ Queued /\ ppc = "idle" /\ call.kind = "push"
    /\ call.error = 0 /\ call.samples > 0 /\ call.prevError > 0
    /\ call.published = 1

\* The value of the `width` bits that follow the first `off` bits of the
\* bytes hdr, most significant bit first.
HdrBit(hdr, i) == (hdr[((i - 1) \div 8) + 1] \div Pow2(7 - ((i - 1) % 8))) % 2
RECURSIVE HdrValue(_, _, _, _)
HdrValue(hdr, off, width, acc) ==
    IF width = 0 THEN acc
    ELSE HdrValue(hdr, off + 1, width - 1, 2 * acc + HdrBit(hdr, off + 1))
HdrField(hdr, off, width) == HdrValue(hdr, off, width, 0)
FrameLength(hdr) == HdrField(hdr, 30, 13)

\* C9: header layout. For every payload length L in 0..8184 the header
\* write_adts_header(L) writes is 7 bytes, each in 0..255, whose fields read
\* back, most significant bit first, as sync 0xFFF, id 0, layer 0,
\* protection_absent 1, profile 1, sampling_freq_index 7, private 0,
\* channel_config 2, four 0 bits, frame_length L + 7, buffer_fullness 0x7FF
\* and frames-minus-one 0.
C9_HeaderLayout ==
    call.kind = "header" =>
        LET h == file[1].bytes
        IN  /\ Len(file) = 1 /\ file[1].n = 7
            /\ Len(h) = 7
            /\ \A k \in 1..7 : h[k] \in 0..255
            /\ HdrField(h, 0, 12) = 4095
            /\ HdrField(h, 12, 1) = 0
            /\ HdrField(h, 13, 2) = 0
            /\ HdrField(h, 15, 1) = 1
            /\ HdrField(h, 16, 2) = 1
            /\ HdrField(h, 18, 4) = 7
            /\ HdrField(h, 22, 1) = 0
            /\ HdrField(h, 23, 3) = 2
            /\ HdrField(h, 26, 4) = 0
            /\ FrameLength(h) = call.len + 7
            /\ HdrField(h, 43, 11) = 2047
            /\ HdrField(h, 54, 2) = 0

\* The header of the longest payload: frame_length is 8191, all 13 bits set.
C9_Witness ==
    /\ call.kind = "header" /\ call.len = 8184
    /\ FrameLength(file[1].bytes) = 8191
    /\ file[1].bytes = <<255, 241, 92, 131, 255, 255, 252>>

C11_FileModesUntouched ==
    /\ [][ (method \in FileMethods)
           => /\ UNCHANGED <<handle, head, tail, free, next, data, mutex,
                             waiters, pob, wob, wstale, sink, published>>
              /\ (call'.kind = "reset"
                    => UNCHANGED <<method, useThreads, ppc, wpc, file>>) ]_vars
    /\ []( method \in FileMethods
           => /\ handle = "NULL" /\ sink = << >> /\ published = << >>
              /\ head = NULL /\ tail = NULL /\ free = NULL
              /\ mutex = "none" /\ waiters = {}
              /\ ppc = "idle" /\ wpc = "none"
              /\ call.error = 0 /\ call.samples = 0 /\ call.diags = 0
              /\ call.closes = 0 /\ call.inits = 0
              /\ call.acquired = 0 /\ call.published = 0
              /\ call.sinkBytes = 0 )

\* In a file mode an output_reset has returned after a packet was written.
C11_Witness ==
    /\ method \in FileMethods /\ call.kind = "reset"
    /\ Len(file) = 3 /\ nCalls = 2
    /\ handle = "NULL"

\* C12: output_reset runs under the pool lock. While output_reset is reading
\* or relinking st->head, st->tail, st->free and the next links (lines
\* 180-190) the calling thread holds the mutex, so that the worker is not
\* inside one of its critical sections at the same time.
C12_ResetUnderLock ==
    ppc \in ResetPcs => mutex = "producer"

\* C13: take_pending removes the head. While the worker is inside ao_play
\* with the buffer it took, that buffer is not reached from st->head: it is
\* no member of the pending sequence.
C13_TakeRemovesHead ==
    wpc = "work_playing" => wob \notin Walk(head, {})

\* C14: the pool lock is never held across a copy or a blocking write. From
\* its unlock of line 149 to the end of ao_play the worker does not hold the
\* mutex, and from its unlock of line 117 to the end of the memcpy the
\* producer does not hold it.
C14_NoLockAcrossIO ==
    /\ wpc \in {"work_play", "work_playing"} => mutex # "worker"
    /\ ppc \in {"push_memcpy", "push_copying"} => mutex # "producer"

\* The worker is inside ao_play while the producer, inside its second
\* critical section, appends another buffer.
C14_Witness ==
    /\ wpc = "work_playing" /\ ppc = "push_publish"
    /\ mutex = "producer" /\ pob # wob

\* C15: acquire_free blocks on an empty free sequence. The producer gets
\* past the wait loop of lines 113-114 only with st->free non-null, and the
\* buffer it then holds is not null, is no longer in the free sequence and is
\* owned by nobody else: it is not reached from st->head and is not the
\* buffer the worker holds.
C15_AcquireBlocks ==
    /\ ppc = "push_acquire" => free # NULL /\ mutex = "producer"
    /\ ppc = "push_unlock1"
         => /\ pob # NULL
            /\ pob \notin FreeSeq
            /\ pob \notin Walk(head, {})
            /\ pob \notin HeldByWorker

C17_NoDeadlock ==
    ~( /\ ppc = "push_cond_wait" /\ "producer" \in waiters /\ free = NULL
       /\ wpc = "work_cond_wait" /\ "worker" \in waiters /\ head = NULL )

\* C18: every sink write is of a published frame, at most once. Each buffer
\* the worker has handed to ao_play held, when it was handed over, a frame
\* the producer had copied into that buffer and published, and no published
\* frame has been handed to ao_play twice.
C18_PlaysPublishedOnce ==
    \A i \in 1..Len(sink) :
        sink[i].by = "worker" =>
            /\ sink[i].frame # 0
            /\ \E j \in 1..Len(published) :
                  /\ published[j].buf = sink[i].buf
                  /\ published[j].frame = sink[i].frame
            /\ \A k \in 1..Len(sink) :
                  (k # i /\ sink[k].by = "worker")
                     => sink[k].frame # sink[i].frame

\* C19: pending list well-formedness. Whenever no thread is inside a
\* critical section or inside output_reset, st->head is null exactly when
\* st->tail is, a non-null st->tail is reached from st->head and has a null
\* next link, and both the pending and the free list end in NULL within
\* PoolSize links (they are finite and acyclic).
C19_ListsWellFormed ==
    OutsideCriticalSections =>
        /\ head = NULL <=> tail = NULL
        /\ tail # NULL => tail \in Walk(head, {}) /\ next[tail] = NULL
        /\ Terminates(head, PoolSize)
        /\ Terminates(free, PoolSize)

====
